---------------------------- MODULE Spec2Model ----------------------------
(***************************************************************************)
(* Vision Assist: the speech queue (SpeechService), the location wrapper   *)
(* (LocationService), the turn-by-turn navigation state machine            *)
(* (NavigationService), the object detection loop (ObjectDetectionService),*)
(* the ModelLoader and the hooks useObjectDetection and useNavigation, as  *)
(* state machines over their own fields, the platform devices they drive   *)
(* (text-to-speech, position watch, camera, interval timers) and history   *)
(* variables that record what was observed.                                *)
(***************************************************************************)
EXTENDS Integers, Sequences, FiniteSets, Bags, TLC

\* ------------------------------------------------------------------ bounds
\* Number of speechService.speak() calls in one behaviour.
MaxUtterances == 4
\* Number of speechService.stop() calls in one behaviour.
MaxStops == 2
\* Number of Speech.speak calls the device refuses (throws) in one behaviour.
MaxThrows == 2

\* Number of announcements NavigationService makes in one behaviour.
MaxAnnouncements == 2
\* Number of startNavigation() calls awaiting their position fix at one time.
MaxPending == 2

\* Number of startDetection() calls in one behaviour.
MaxStarts == 2
\* Number of capture+inference cycles begun in one behaviour.
MaxFrames == 2
\* The clock's last instant, in milliseconds.
MaxTime == 3000
\* Number of runs of the hook's loading-progress poll in one behaviour.
MaxPolls == 3

\* Number of startLocationTracking() calls awaiting the permission at one time.
MaxTracking == 2
\* Number of ModelLoader.loadModel() calls in one behaviour.
MaxLoads == 3

VARIABLES
  \* SpeechService fields
  queue,              \* pending utterances, in insertion order
  isProcessingQueue,
  isSpeaking,
  \* the text-to-speech device (expo-speech)
  ttsPending,         \* utterances handed to the device, not yet completed or stopped
  ttsStale,           \* stopped utterances whose completion event is still to arrive
  ttsFaults,          \* Speech.speak calls the device will still refuse
  \* history
  enqueued,           \* enqueued[i] = text of the i-th speak() call
  handed,             \* every Speech.speak call: [id, mark, ok]
  cbLog,              \* caller callbacks fired: [id, cb]
  devLog,             \* completion events the device delivered: [id, outcome]
  stopMark,           \* number of speak() calls made before the latest stop()
  stops,              \* number of stop() calls
  \* NavigationService fields
  isNavigating,
  currentDestination, \* a catalog id, or NullDest
  navigationSteps,
  currentStepIndex,
  updateInterval,     \* handle of the progress timer, or NoTimer
  lastLocation,       \* a position, or NoLocation
  \* the timers of the runtime (setInterval / clearInterval)
  intervals,          \* live interval timers: [id, announceSteps]
  timerSeq,           \* number of setInterval calls so far
  \* LocationService fields
  watchId,            \* "null", or "promise": what Location.watchPositionAsync returned
  isPermissionGranted,
  lastKnownLocation,
  \* the geolocation device
  watches,            \* active position streams
  osPermission,       \* "undetermined", "granted" or "denied"
  \* startNavigation() calls suspended at await getCurrentLocation(), as a bag
  pending,
  \* history: the latest NavigationService or LocationService operation and
  \* what it did
  last,
  \* ObjectDetectionService fields
  isDetecting,
  detectionInterval,  \* handle of the detection timer, or NoTimer
  hasPermission,
  lastFrameTime,
  isModelLoaded,
  \* the runtime and the devices ObjectDetectionService drives
  now,                \* Date.now(), in milliseconds
  detTimers,          \* live detection timers: [id, opts, created, due]
  detTimerSeq,        \* number of detection timers created so far
  cameraPermission,   \* "undetermined", "granted" or "denied"
  permRequests,       \* requestCameraPermission() calls in flight, as a bag
  modelLoading,       \* loadModel() is in flight
  frames,             \* detectFrame() calls suspended at takePicture / predict
  frameSeq,           \* number of capture+inference cycles begun so far
  \* history
  starts,             \* number of startDetection() calls
  cycles,             \* start times of the capture+inference cycles, in order
  dlast,              \* the latest frame that ended and what its end did
  \* useObjectDetection state
  enabled,            \* the enabled prop of the latest render
  hookIsDetecting,
  hookHasPermission,  \* "null", "true" or "false"
  isModelLoading,
  effectIsDetecting,  \* isDetecting as the latest run of the enable effect saw it
  polls,              \* number of runs of the loading-progress poll
  \* number of startLocationTracking() calls waiting for requestPermissions()
  trackRequests,
  \* ModelLoader fields
  loaderModel,        \* "null" or "graph"
  loaderIsModelLoaded,
  loadingProgress,
  loadingStatus,
  \* loadModel() calls in flight: [id, at], at the await the call is suspended on
  loads,
  loadSeq,            \* number of loadModel() calls so far
  \* useNavigation state
  navHookIsNavigating

speechVars == <<queue, isProcessingQueue, isSpeaking, ttsPending, ttsStale, ttsFaults,
                enqueued, handed, cbLog, devLog, stopMark, stops>>

navVars == <<isNavigating, currentDestination, navigationSteps, currentStepIndex,
             updateInterval, lastLocation, intervals, timerSeq>>

locVars == <<watchId, isPermissionGranted, lastKnownLocation, watches, osPermission>>

detVars == <<isDetecting, detectionInterval, hasPermission, lastFrameTime, isModelLoaded,
             now, detTimers, detTimerSeq, cameraPermission, permRequests, modelLoading,
             frames, frameSeq, starts, cycles, dlast>>

hookVars == <<enabled, hookIsDetecting, hookHasPermission, isModelLoading,
              effectIsDetecting, polls>>

trackVars == <<trackRequests>>

loaderVars == <<loaderModel, loaderIsModelLoaded, loadingProgress, loadingStatus,
                loads, loadSeq>>

navHookVars == <<navHookIsNavigating>>

vars == <<speechVars, navVars, locVars, pending, last, detVars, hookVars, trackVars,
          loaderVars, navHookVars>>

\* ------------------------------------------------------------ SpeechService

\* The speech side of the state as one value, so that a handler of another
\* service can call speak() inside its own step.
SpeechState ==
  [queue |-> queue, isProcessingQueue |-> isProcessingQueue,
   isSpeaking |-> isSpeaking, ttsPending |-> ttsPending, ttsStale |-> ttsStale,
   ttsFaults |-> ttsFaults,
   enqueued |-> enqueued, handed |-> handed, cbLog |-> cbLog, devLog |-> devLog,
   stopMark |-> stopMark, stops |-> stops]

SetSpeech(s) ==
  /\ queue' = s.queue
  /\ isProcessingQueue' = s.isProcessingQueue
  /\ isSpeaking' = s.isSpeaking
  /\ ttsPending' = s.ttsPending
  /\ ttsStale' = s.ttsStale
  /\ ttsFaults' = s.ttsFaults
  /\ enqueued' = s.enqueued
  /\ handed' = s.handed
  /\ cbLog' = s.cbLog
  /\ devLog' = s.devLog
  /\ stopMark' = s.stopMark
  /\ stops' = s.stops

\* queue.shift(): the utterance processQueue takes.
ShiftLast(q) == q[Len(q)]
Shift(q) == Head(q)

\* What is left of the queue after the shift.
Shifted(q) == Tail(q)

\* processQueue. k is the number of Speech.speak calls, from this one on, that
\* throw: the catch branch reports onError and calls processQueue again in the
\* same turn.
RECURSIVE processQueue(_, _)
processQueue(s, k) ==
  IF Len(s.queue) = 0
  THEN [s EXCEPT !.isProcessingQueue = FALSE]
  ELSE LET u  == Shift(s.queue)
           s1 == [s EXCEPT !.isProcessingQueue = TRUE,
                           !.queue = Shifted(s.queue),
                           !.isSpeaking = TRUE]
       IN IF k > 0
          THEN processQueue(
                 [s1 EXCEPT !.isSpeaking = FALSE,
                            !.ttsFaults = @ - 1,
                            !.handed = Append(@, [id |-> u, mark |-> s.stopMark, ok |-> FALSE]),
                            !.cbLog = Append(@, [id |-> u, cb |-> "onError"])],
                 k - 1)
          ELSE [s1 EXCEPT !.ttsPending = Append(@, u),
                          !.handed = Append(@, [id |-> u, mark |-> s.stopMark, ok |-> TRUE])]

\* Whether speak() starts processing itself.
MustProcessAlways(s) == TRUE
MustProcess(s) == ~s.isProcessingQueue

\* this.queue.push(...)
PushFront(q, id) == <<id>> \o q
Push(q, id) == Append(q, id)

\* speak(text, options)
speak(s, text, k) ==
  LET id == Len(s.enqueued) + 1
      s1 == [s EXCEPT !.queue = Push(@, id), !.enqueued = Append(@, text)]
  IN IF MustProcess(s1) THEN processQueue(s1, k) ELSE s1

\* The queue stop() leaves behind.
StoppedQueueKeepsBacklog(q) == q
StoppedQueue(q) == <<>>

\* stop(). Speech.stop() ends the device's utterances; with later = TRUE the
\* platform still delivers a completion event for them afterwards.
stop(s, later) ==
  [s EXCEPT !.isSpeaking = FALSE,
            !.queue = StoppedQueue(s.queue),
            !.ttsPending = <<>>,
            !.ttsStale = IF later THEN @ \cup {s.ttsPending[i] : i \in 1..Len(s.ttsPending)} ELSE @,
            !.stopMark = Len(s.enqueued),
            !.stops = @ + 1]

\* Whether the failed utterance goes back on the queue.
RequeueOnError(s, u) == [s EXCEPT !.queue = <<u>> \o @]
AfterError(s, u) == s

\* The wrapped onDone / onError handed to Speech.speak.
onDone(s, u, k) ==
  processQueue([s EXCEPT !.isSpeaking = FALSE,
                         !.cbLog = Append(@, [id |-> u, cb |-> "onDone"])], k)

onError(s, u, k) ==
  processQueue(AfterError([s EXCEPT !.isSpeaking = FALSE,
                                    !.cbLog = Append(@, [id |-> u, cb |-> "onError"])], u), k)

\* The numbers of refusals speak() and the completion handlers may meet.
Refusals(n) == 0..(IF n < ttsFaults THEN n ELSE ttsFaults)

SpeechInit ==
  /\ queue = <<>>
  /\ isProcessingQueue = FALSE
  /\ isSpeaking = FALSE
  /\ ttsPending = <<>>
  /\ ttsStale = {}
  /\ ttsFaults \in {0, MaxThrows}
  /\ enqueued = <<>>
  /\ handed = <<>>
  /\ cbLog = <<>>
  /\ devLog = <<>>
  /\ stopMark = 0
  /\ stops = 0

otherThanSpeech ==
  <<navVars, locVars, pending, last, detVars, hookVars, trackVars, loaderVars,
    navHookVars>>

\* A caller speaks.
Speak ==
  /\ Len(enqueued) < MaxUtterances
  /\ \E k \in Refusals(1) : SetSpeech(speak(SpeechState, "say", k))
  /\ UNCHANGED otherThanSpeech

\* A caller stops speech.
Stop ==
  /\ stops < MaxStops
  /\ \E later \in BOOLEAN : SetSpeech(stop(SpeechState, later))
  /\ UNCHANGED otherThanSpeech

\* The device finishes its current utterance.
DeviceDone ==
  /\ Len(ttsPending) > 0
  /\ \E k \in Refusals(Len(queue)) :
       LET u == Head(ttsPending)
           s == [SpeechState EXCEPT !.ttsPending = Tail(@),
                                    !.devLog = Append(@, [id |-> u, outcome |-> "done"])]
       IN SetSpeech(onDone(s, u, k))
  /\ UNCHANGED otherThanSpeech

\* The device reports an error for its current utterance.
DeviceError ==
  /\ Len(ttsPending) > 0
  /\ \E k \in Refusals(Len(queue)) :
       LET u == Head(ttsPending)
           s == [SpeechState EXCEPT !.ttsPending = Tail(@),
                                    !.devLog = Append(@, [id |-> u, outcome |-> "error"])]
       IN SetSpeech(onError(s, u, k))
  /\ UNCHANGED otherThanSpeech

\* The completion event of a stopped utterance arrives.
DeviceLateEvent ==
  /\ \E u \in ttsStale :
       \E k \in Refusals(Len(queue)), failed \in BOOLEAN :
         LET s == [SpeechState EXCEPT
                     !.ttsStale = @ \ {u},
                     !.devLog = Append(@, [id |-> u,
                                           outcome |-> IF failed THEN "error" ELSE "done"])]
         IN SetSpeech(IF failed THEN onError(s, u, k) ELSE onDone(s, u, k))
  /\ UNCHANGED otherThanSpeech

SpeechNext == Speak \/ Stop \/ DeviceDone \/ DeviceError \/ DeviceLateEvent

\* ---------------------------------------------------------- LocationService

NoLocation == -1

\* Positions are points of one meridian, given in meters north of a reference
\* point: the great-circle distance of two of them is the difference, and the
\* bearing from one to the other is 0 (north) or 180 (south).
Positions == {10, 11}

Abs(x) == IF x < 0 THEN -x ELSE x

calculateDistance(a, b) == IF a = b THEN 0 ELSE Abs(b - a)

calculateBearing(a, b) == IF b >= a THEN 0 ELSE 180

directions ==
  <<"North", "Northeast", "East", "Southeast", "South", "Southwest", "West",
    "Northwest", "North">>

\* Math.round(bearing / 45) % 8, as an index into directions
bearingToDirection(bearing) == directions[(((2 * bearing + 45) \div 90) % 8) + 1]

\* this.watchId.remove(): watchId holds what Location.watchPositionAsync
\* returned, which is a promise of the subscription and has no remove method,
\* so the call is a TypeError and the stream stays as it is.
RemoveWorks(w, ws) == [watchId |-> "null", watches |-> {}, threw |-> FALSE]
Remove(w, ws) == [watchId |-> w, watches |-> ws, threw |-> TRUE]

\* stopLocationTracking()
stopLocationTracking(w, ws) ==
  IF w # "null" THEN Remove(w, ws) ELSE [watchId |-> w, watches |-> ws, threw |-> FALSE]

\* startWatching(): stops any existing watch, outside its try block, then
\* stores the promise of the new stream.
startWatching(w, ws) ==
  LET sl == stopLocationTracking(w, ws)
  IN IF sl.threw THEN sl
     ELSE [watchId |-> "promise",
           watches |-> sl.watches \cup {Cardinality(sl.watches) + 1},
           threw |-> FALSE]

\* requestPermissions(): the system's answer, which it keeps once given.
PermissionAnswer(ask) == IF osPermission = "undetermined" THEN ask ELSE osPermission

\* getCurrentLocation(): requests the permission if it is not granted yet (ask is
\* the user's answer if the system has none), then takes a fix from the device
\* (NoLocation: getCurrentPositionAsync failed).
getCurrentLocation(ask, fix) ==
  LET answer == IF isPermissionGranted THEN "granted" ELSE PermissionAnswer(ask)
      located == answer = "granted" /\ fix # NoLocation
  IN [location |-> IF located THEN fix ELSE NoLocation,
      osPermission |-> IF isPermissionGranted THEN osPermission ELSE answer,
      isPermissionGranted |-> (answer = "granted"),
      lastKnownLocation |-> IF located THEN fix ELSE lastKnownLocation]

LocationInit ==
  /\ watchId = "null"
  /\ isPermissionGranted = FALSE
  /\ lastKnownLocation = NoLocation
  /\ watches = {}
  /\ osPermission = "undetermined"

\* -------------------------------------------------------- NavigationService

NullDest == "null"
NoTimer == 0
distanceThreshold == 10

\* The catalog; coordinates is the destination's place on the meridian of
\* Positions, in meters.
commonDestinations ==
  <<[id |-> "grocery-store", name |-> "Grocery Store", coordinates |-> 150],
    [id |-> "park", name |-> "Park", coordinates |-> 450],
    [id |-> "library", name |-> "Library", coordinates |-> 311],
    [id |-> "bus-stop", name |-> "Bus Stop", coordinates |-> 600],
    [id |-> "home", name |-> "Home", coordinates |-> 0]>>

\* The destination strings callers pass: an id, a name, and one that is neither.
DestinationInputs == {"home", "Home", "nowhere"}

FirstOf(S) == CHOOSE i \in S : \A j \in S : i <= j

getDestinationById(id) ==
  LET m == {i \in DOMAIN commonDestinations : commonDestinations[i].id = id}
  IN IF m = {} THEN NullDest ELSE commonDestinations[FirstOf(m)].id

getDestinationByName(name) ==
  LET m == {i \in DOMAIN commonDestinations : commonDestinations[i].name = name}
  IN IF m = {} THEN NullDest ELSE commonDestinations[FirstOf(m)].id

Coordinates(dest) ==
  commonDestinations[FirstOf({i \in DOMAIN commonDestinations :
                                commonDestinations[i].id = dest})].coordinates

\* getDestinationById(destination) || getDestinationByName(destination)
ResolveOrFirst(destination) ==
  IF getDestinationById(destination) # NullDest THEN getDestinationById(destination)
  ELSE IF getDestinationByName(destination) # NullDest THEN getDestinationByName(destination)
  ELSE commonDestinations[1].id
Resolve(destination) ==
  IF getDestinationById(destination) # NullDest THEN getDestinationById(destination)
  ELSE getDestinationByName(destination)

\* Math.round(totalDistance / 3)
RoundThirdDown(d) == d \div 3
RoundThird(d) == (2 * d + 3) \div 6

TurnDirection(turn) == IF turn = "right" THEN "Right" ELSE "Left"

\* generateNavigationSteps(start, end), with the two Math.random() draws given
generateNavigationSteps(start, end, randomTurn, secondTurn) ==
  LET totalDistance == calculateDistance(start, end)
      direction == bearingToDirection(calculateBearing(start, end))
  IN <<[id |-> "step-1", distance |-> RoundThird(totalDistance),
        direction |-> direction, isCompleted |-> FALSE],
       [id |-> "step-2", distance |-> 0,
        direction |-> TurnDirection(randomTurn), isCompleted |-> FALSE],
       [id |-> "step-3", distance |-> RoundThird(totalDistance),
        direction |-> "Straight", isCompleted |-> FALSE],
       [id |-> "step-4", distance |-> 0,
        direction |-> "Straight", isCompleted |-> FALSE],
       [id |-> "step-5", distance |-> 0,
        direction |-> TurnDirection(secondTurn), isCompleted |-> FALSE],
       [id |-> "step-6", distance |-> RoundThird(totalDistance),
        direction |-> TurnDirection(randomTurn), isCompleted |-> FALSE]>>

\* What an operation is recorded with in `last`.
Op(name) ==
  [op |-> name, input |-> NullDest, located |-> FALSE, ret |-> "none", errs |-> 0,
   threw |-> FALSE, changed |-> FALSE, wasActive |-> FALSE, stopped |-> FALSE,
   n |-> 0, said |-> 0, onStepChange |-> FALSE]

\* The session state of the service, the timers and the position streams.
NavObs ==
  <<isNavigating, currentDestination, navigationSteps, currentStepIndex,
    updateInterval, lastLocation, intervals, watchId, watches>>

NavInit ==
  /\ isNavigating = FALSE
  /\ currentDestination = NullDest
  /\ navigationSteps = <<>>
  /\ currentStepIndex = 0
  /\ updateInterval = NoTimer
  /\ lastLocation = NoLocation
  /\ intervals = {}
  /\ timerSeq = 0
  /\ pending = EmptyBag
  /\ last = Op("none")

\* clearInterval(h)
clearInterval(ts, h) == {t \in ts : t.id # h}

\* The fields stopNavigation() resets and the timer it clears, before it calls
\* locationService.stopLocationTracking().
StopFields ==
  /\ isNavigating' = FALSE
  /\ currentDestination' = NullDest
  /\ navigationSteps' = <<>>
  /\ currentStepIndex' = 0
  /\ intervals' = clearInterval(intervals, updateInterval)
  /\ updateInterval' = NoTimer

\* Every suspended startNavigation() call has now seen a stopNavigation().
MarkStopped(calls) ==
  [c \in {[x EXCEPT !.stopped = TRUE] : x \in BagToSet(calls)} |->
     CopiesIn(c, calls) + CopiesIn([c EXCEPT !.stopped = FALSE], calls)]

\* startNavigation(destination, options) up to await getCurrentLocation(): an
\* active session is stopped first, then the destination is resolved.
startNavigation(destination, announceSteps) ==
  LET wasActive == isNavigating
      sl == IF wasActive THEN stopLocationTracking(watchId, watches)
            ELSE [watchId |-> watchId, watches |-> watches, threw |-> FALSE]
      target == Resolve(destination)
      rec == [Op("start") EXCEPT !.input = destination, !.wasActive = wasActive]
  IN /\ BagCardinality(pending) < MaxPending
     /\ IF wasActive THEN StopFields
        ELSE UNCHANGED <<isNavigating, currentDestination, navigationSteps,
                         currentStepIndex, intervals, updateInterval>>
     /\ watchId' = sl.watchId
     /\ watches' = sl.watches
     /\ UNCHANGED <<lastLocation, timerSeq, isPermissionGranted, lastKnownLocation,
                    osPermission, speechVars, detVars, hookVars, trackVars,
                    loaderVars>>
     /\ IF sl.threw
        THEN /\ pending' = pending
             /\ last' = [rec EXCEPT !.ret = "threw", !.threw = TRUE,
                                    !.changed = (NavObs' # NavObs)]
        ELSE IF target = NullDest
        THEN /\ pending' = pending
             /\ last' = [rec EXCEPT !.ret = "false", !.errs = 1,
                                    !.changed = (NavObs' # NavObs)]
        ELSE /\ pending' = pending (+) SetToBag({[dest |-> target,
                                                   announceSteps |-> announceSteps,
                                                   wasActive |-> wasActive,
                                                   stopped |-> FALSE]})
             /\ last' = [rec EXCEPT !.ret = "awaiting"]

\* getCurrentLocation() completes for a suspended startNavigation() call, which
\* runs to its end: ask is the user's answer if the permission is still to be
\* requested, fix the position the device gives (NoLocation: none).
resumeStartNavigation(call, ask, fix, randomTurn, secondTurn) ==
  LET got == getCurrentLocation(ask, fix)
      currentLocation == got.location
      rec == [Op("start") EXCEPT !.input = call.dest,
                                 !.located = (currentLocation # NoLocation),
                                 !.wasActive = call.wasActive, !.stopped = call.stopped,
                                 !.said = IF currentLocation # NoLocation /\ call.announceSteps
                                          THEN 1 ELSE 0]
      \* locationService.startLocationTracking(): the permission is granted
      \* here (a position was obtained), so it calls startWatching() at once
      sw == startWatching(watchId, watches)
  IN /\ pending' = pending (-) SetToBag({call})
     /\ UNCHANGED <<detVars, hookVars, trackVars, loaderVars>>
     /\ osPermission' = got.osPermission
     /\ isPermissionGranted' = got.isPermissionGranted
     /\ lastKnownLocation' = got.lastKnownLocation
     /\ IF currentLocation = NoLocation
        THEN /\ UNCHANGED <<navVars, watchId, watches, speechVars>>
             /\ last' = [rec EXCEPT !.ret = "false", !.errs = 1,
                                    !.changed = (NavObs' # NavObs)]
        ELSE /\ call.announceSteps => Len(enqueued) < MaxAnnouncements
             /\ lastLocation' = currentLocation
             /\ currentDestination' = call.dest
             /\ isNavigating' = TRUE
             /\ navigationSteps' = generateNavigationSteps(
                                     currentLocation, Coordinates(call.dest),
                                     randomTurn, secondTurn)
             /\ currentStepIndex' = 0
             /\ IF call.announceSteps
                THEN \E k \in Refusals(1) : SetSpeech(speak(SpeechState, "start", k))
                ELSE UNCHANGED speechVars
             /\ watchId' = sw.watchId
             /\ watches' = sw.watches
             /\ IF sw.threw
                THEN /\ UNCHANGED <<updateInterval, intervals, timerSeq>>
                     /\ last' = [rec EXCEPT !.ret = "threw", !.threw = TRUE,
                                            !.changed = (NavObs' # NavObs)]
                ELSE /\ timerSeq' = timerSeq + 1
                     /\ intervals' = intervals \cup
                          {[id |-> timerSeq + 1, announceSteps |-> call.announceSteps]}
                     /\ updateInterval' = timerSeq + 1
                     /\ last' = [rec EXCEPT !.ret = "true",
                                            !.changed = (NavObs' # NavObs)]

\* stopNavigation()
stopNavigation ==
  LET wasActive == isNavigating
      sl == IF wasActive THEN stopLocationTracking(watchId, watches)
            ELSE [watchId |-> watchId, watches |-> watches, threw |-> FALSE]
  IN /\ IF wasActive THEN StopFields
        ELSE UNCHANGED <<isNavigating, currentDestination, navigationSteps,
                         currentStepIndex, intervals, updateInterval>>
     /\ watchId' = sl.watchId
     /\ watches' = sl.watches
     /\ pending' = MarkStopped(pending)
     /\ UNCHANGED <<lastLocation, timerSeq, isPermissionGranted, lastKnownLocation,
                    osPermission, speechVars, detVars, hookVars, trackVars,
                    loaderVars>>
     /\ last' = [Op("stop") EXCEPT !.wasActive = wasActive, !.threw = sl.threw,
                                   !.changed = (NavObs' # NavObs)]

\* A caller other than the hook calls startNavigation().
StartNavigation(destination, announceSteps) ==
  /\ startNavigation(destination, announceSteps)
  /\ UNCHANGED navHookVars

\* The position fix of such a call arrives.
FixArrives(call, ask, fix, randomTurn, secondTurn) ==
  /\ resumeStartNavigation(call, ask, fix, randomTurn, secondTurn)
  /\ UNCHANGED navHookVars

\* A caller other than the hook calls stopNavigation().
StopNavigation ==
  /\ stopNavigation
  /\ UNCHANGED navHookVars

\* Whether a tick far from the destination advances: only from a step that is
\* not completed and is not the last one.
CanAdvanceCompleted(step, index, length) == index < length - 1
CanAdvance(step, index, length) == ~step.isCompleted /\ index < length - 1

\* currentStep.isCompleted = true
MarkNothing(steps, index) == steps
MarkCompleted(steps, index) == [steps EXCEPT ![index + 1].isCompleted = TRUE]

\* The callback of interval timer t runs.  A step advance is recorded with
\* the index it found, whether it spoke and that it called onStepChange.
Tick(t) ==
  IF ~isNavigating \/ lastLocation = NoLocation \/ currentDestination = NullDest
  THEN UNCHANGED vars
  ELSE
    LET distanceToDestination ==
          calculateDistance(lastLocation, Coordinates(currentDestination))
        currentStep == navigationSteps[currentStepIndex + 1]
    IN /\ UNCHANGED <<locVars, pending, lastLocation, timerSeq, currentDestination,
                      detVars, hookVars, trackVars, loaderVars, navHookVars>>
       /\ IF distanceToDestination <= distanceThreshold
          THEN /\ t.announceSteps => Len(enqueued) < MaxAnnouncements
               /\ isNavigating' = FALSE
               /\ IF t.announceSteps
                  THEN \E k \in Refusals(1) : SetSpeech(speak(SpeechState, "arrival", k))
                  ELSE UNCHANGED speechVars
               /\ intervals' = clearInterval(intervals, updateInterval)
               /\ updateInterval' = NoTimer
               /\ UNCHANGED <<navigationSteps, currentStepIndex>>
               /\ last' = [Op("arrival") EXCEPT
                             !.n = IF last.op = "arrival" THEN last.n + 1 ELSE 1,
                             !.said = IF t.announceSteps THEN 1 ELSE 0]
          ELSE IF CanAdvance(currentStep, currentStepIndex, Len(navigationSteps))
          THEN /\ t.announceSteps => Len(enqueued) < MaxAnnouncements
               /\ navigationSteps' = MarkCompleted(navigationSteps, currentStepIndex)
               /\ currentStepIndex' = currentStepIndex + 1
               /\ IF t.announceSteps
                  THEN \E k \in Refusals(1) : SetSpeech(speak(SpeechState, "step", k))
                  ELSE UNCHANGED speechVars
               /\ UNCHANGED <<isNavigating, intervals, updateInterval>>
               /\ last' = [Op("step") EXCEPT !.n = currentStepIndex,
                                             !.said = IF t.announceSteps THEN 1 ELSE 0,
                                             !.onStepChange = TRUE]
          ELSE UNCHANGED vars

\* Whether moveToNextStep() moves: not when Idle, not at the last step.
CanMoveNextUnclamped(active, index, length) == active
CanMoveNext(active, index, length) == ~(~active \/ index >= length - 1)

\* Whether moveToPreviousStep() moves: not when Idle, not at the first step.
CanMovePreviousUnclamped(active, index, length) == active
CanMovePrevious(active, index, length) == ~(~active \/ index <= 0)

\* moveToNextStep(); last.n keeps the index the call found.
MoveToNextStep ==
  /\ IF ~CanMoveNext(isNavigating, currentStepIndex, Len(navigationSteps))
     THEN /\ UNCHANGED currentStepIndex
          /\ last' = [Op("next") EXCEPT !.ret = "false", !.n = currentStepIndex,
                                        !.wasActive = isNavigating]
     ELSE /\ currentStepIndex' = currentStepIndex + 1
          /\ last' = [Op("next") EXCEPT !.ret = "true", !.n = currentStepIndex,
                                        !.wasActive = isNavigating]
  /\ UNCHANGED <<isNavigating, currentDestination, navigationSteps, updateInterval,
                 lastLocation, intervals, timerSeq, locVars, pending, speechVars,
                 detVars, hookVars, trackVars, loaderVars, navHookVars>>

\* moveToPreviousStep(); last.n keeps the index the call found.
MoveToPreviousStep ==
  /\ IF ~CanMovePrevious(isNavigating, currentStepIndex, Len(navigationSteps))
     THEN /\ UNCHANGED currentStepIndex
          /\ last' = [Op("previous") EXCEPT !.ret = "false", !.n = currentStepIndex,
                                            !.wasActive = isNavigating]
     ELSE /\ currentStepIndex' = currentStepIndex - 1
          /\ last' = [Op("previous") EXCEPT !.ret = "true", !.n = currentStepIndex,
                                            !.wasActive = isNavigating]
  /\ UNCHANGED <<isNavigating, currentDestination, navigationSteps, updateInterval,
                 lastLocation, intervals, timerSeq, locVars, pending, speechVars,
                 detVars, hookVars, trackVars, loaderVars, navHookVars>>

\* A position stream delivers a sample: the LocationService callback stores it
\* and calls the onLocationUpdate that startLocationTracking() passed.
LocationUpdate(w, location) ==
  /\ lastKnownLocation' = location
  /\ lastLocation' = location
  /\ UNCHANGED <<isNavigating, currentDestination, navigationSteps, currentStepIndex,
                 updateInterval, intervals, timerSeq, watchId, isPermissionGranted,
                 watches, osPermission, pending, last, speechVars, detVars, hookVars,
                 trackVars, loaderVars, navHookVars>>

\* A requestPermissions() call (the constructor's, or a screen's) completes.
RequestPermissions(ask) ==
  /\ ~isPermissionGranted
  /\ osPermission # "denied"
  /\ osPermission' = PermissionAnswer(ask)
  /\ isPermissionGranted' = (PermissionAnswer(ask) = "granted")
  /\ UNCHANGED <<navVars, watchId, lastKnownLocation, watches, pending, last, speechVars,
                 detVars, hookVars, trackVars, loaderVars, navHookVars>>

NavNext ==
  \/ \E d \in DestinationInputs, a \in BOOLEAN : StartNavigation(d, a)
  \/ \E call \in BagToSet(pending), ask \in {"granted", "denied"},
        fix \in Positions \cup {NoLocation}, rt, st \in {"right", "left"} :
       /\ (isPermissionGranted \/ osPermission # "undetermined") => ask = "granted"
       /\ (osPermission = "denied" \/ (~isPermissionGranted /\ ask = "denied"))
            => fix = NoLocation
       /\ fix = NoLocation => (rt = "right" /\ st = "right")
       /\ FixArrives(call, ask, fix, rt, st)
  \/ StopNavigation
  \/ \E t \in intervals : Tick(t)
  \/ \E w \in watches, p \in Positions : LocationUpdate(w, p)
  \/ \E ask \in {"granted", "denied"} :
       /\ osPermission # "undetermined" => ask = "granted"
       /\ RequestPermissions(ask)
  \/ DeviceDone

\* ---------------------------------------------------- ObjectDetectionService

\* private frameInterval: the minimum time between frames, in milliseconds
frameInterval == 1000

\* COCO_LABELS.length
CocoLabels == 80

\* The literal that processImage compares the scores with, in percent.
ScoreThreshold == 50

\* The option sets callers pass to startDetection(): the defaults, and a caller
\* asking for a higher threshold, a short interval, one object and no haptics.
\* Confidences are in percent.
DetectionOptions ==
  {[confidenceThreshold |-> 50, detectionInterval |-> 3000, maxDetections |-> 5,
    announceObjects |-> TRUE, hapticFeedback |-> TRUE],
   [confidenceThreshold |-> 60, detectionInterval |-> 500, maxDetections |-> 1,
    announceObjects |-> TRUE, hapticFeedback |-> FALSE]}

\* The clock is observed at multiples of the shortest timer period.
ClockStep == FirstOf({o.detectionInterval : o \in DetectionOptions})

\* What model.predict may return for a frame: scores (in percent) and class
\* indices, in the model's order.
ModelOutputs ==
  {<<[score |-> 90, class |-> 0], [score |-> 40, class |-> 16]>>,
   <<[score |-> 55, class |-> 0], [score |-> 50, class |-> 16]>>,
   <<[score |-> 90, class |-> 0], [score |-> 90, class |-> 56]>>,
   <<[score |-> 40, class |-> 0], [score |-> 90, class |-> 80]>>}

\* The loop of processImage over the scores: what it pushes to detectedObjects.
Detected(p) == p.score > ScoreThreshold /\ p.class < CocoLabels
processImage(predictions) == SelectSeq(predictions, Detected)

\* What the end of a frame is recorded with in `dlast`.
DetOp(name) ==
  [op |-> name, failed |-> "none", predictions |-> <<>>, batch |-> <<>>,
   confidenceThreshold |-> 0, maxDetections |-> 0, stopped |-> FALSE,
   haptic |-> FALSE, said |-> FALSE, onDetection |-> FALSE, errs |-> 0,
   timerKept |-> FALSE]

DetectInit ==
  /\ isDetecting = FALSE
  /\ detectionInterval = NoTimer
  /\ hasPermission = FALSE
  /\ lastFrameTime = 0
  /\ isModelLoaded = FALSE
  /\ now = 0
  /\ detTimers = {}
  /\ detTimerSeq = 0
  /\ cameraPermission = "undetermined"
  \* the constructor has called requestCameraPermission() and loadModel()
  /\ permRequests = SetToBag({[start |-> FALSE, opts |-> CHOOSE o \in DetectionOptions : TRUE]})
  /\ modelLoading = TRUE
  /\ frames = {}
  /\ frameSeq = 0
  /\ starts = 0
  /\ cycles = <<>>
  /\ dlast = DetOp("none")

\* currentTime - this.lastFrameTime < this.frameInterval does not hold
FloorElapsed(currentTime, lft) == ~(currentTime - lft < frameInterval)

\* detectFrame() up to await this.takePicture(): a call that passes the floor
\* begins a capture+inference cycle.
detectFrame(fs, seq, cyc, currentTime, lft, opts) ==
  IF FloorElapsed(currentTime, lft)
  THEN [frames |-> fs \cup {[id |-> seq + 1, currentTime |-> currentTime, opts |-> opts,
                             phase |-> "capture", stopped |-> FALSE]},
        frameSeq |-> seq + 1,
        cycles |-> Append(cyc, currentTime)]
  ELSE [frames |-> fs, frameSeq |-> seq, cycles |-> cyc]

\* The timers and the suspended frames stopDetection() leaves behind.
StoppedTimers == IF isDetecting THEN {t \in detTimers : t.id # detectionInterval} ELSE detTimers
StoppedFrames == IF isDetecting THEN {[f EXCEPT !.stopped = TRUE] : f \in frames} ELSE frames

\* startDetectionProcess(), with the live timers ts and the suspended frames fs
\* it finds: the service's part of the state.
startDetectionProcess(opts, ts, fs) ==
  LET df == detectFrame(fs, frameSeq, cycles, now, now, opts)
  IN /\ isDetecting' = TRUE
     /\ lastFrameTime' = now
     /\ frames' = df.frames
     /\ frameSeq' = df.frameSeq
     /\ cycles' = df.cycles
     /\ detTimerSeq' = detTimerSeq + 1
     /\ detTimers' = ts \cup
          {[id |-> detTimerSeq + 1, opts |-> opts, created |-> now,
            due |-> now + opts.detectionInterval]}
     /\ detectionInterval' = detTimerSeq + 1

\* startDetection(options), made when isDetecting is det, the timer handle is h,
\* the live timers are ts and the suspended frames fs: the service's part of
\* the state.
startDetectionFrom(opts, det, h, ts, fs) ==
  /\ starts' = starts + 1
  /\ UNCHANGED <<hasPermission, isModelLoaded, now, cameraPermission, modelLoading, dlast>>
  /\ IF det
     THEN /\ isDetecting' = det
          /\ detectionInterval' = h
          /\ detTimers' = ts
          /\ frames' = fs
          /\ UNCHANGED <<lastFrameTime, detTimerSeq, permRequests, frameSeq, cycles>>
     ELSE IF ~hasPermission
     THEN /\ permRequests' = permRequests (+) SetToBag({[start |-> TRUE, opts |-> opts]})
          /\ isDetecting' = det
          /\ detectionInterval' = h
          /\ detTimers' = ts
          /\ frames' = fs
          /\ UNCHANGED <<lastFrameTime, detTimerSeq, frameSeq, cycles>>
     ELSE /\ startDetectionProcess(opts, ts, fs)
          /\ UNCHANGED permRequests

\* startDetection(options)
startDetection(opts) ==
  startDetectionFrom(opts, isDetecting, detectionInterval, detTimers, frames)

\* stopDetection(): the service's part of the state.
stopDetection ==
  /\ UNCHANGED <<hasPermission, isModelLoaded, now, cameraPermission, modelLoading,
                 lastFrameTime, detTimerSeq, permRequests, frameSeq, starts, cycles,
                 dlast>>
  /\ isDetecting' = FALSE
  /\ detTimers' = StoppedTimers
  /\ detectionInterval' = IF isDetecting THEN NoTimer ELSE detectionInterval
  /\ frames' = StoppedFrames

\* stopDetection() followed by startDetection(options) in the same turn.
restartDetection(opts) ==
  startDetectionFrom(opts, FALSE, IF isDetecting THEN NoTimer ELSE detectionInterval,
                     StoppedTimers, StoppedFrames)

notDetection ==
  <<speechVars, navVars, locVars, pending, last, hookVars, trackVars, loaderVars,
    navHookVars>>

\* A caller starts detection.
StartDetection(opts) ==
  /\ starts < MaxStarts
  /\ startDetection(opts)
  /\ UNCHANGED notDetection

\* A caller stops detection.
StopDetection ==
  /\ stopDetection
  /\ UNCHANGED notDetection

\* A requestCameraPermission() call completes: with the system's answer, which
\* it keeps once given, or with an error, which the method turns into false.
\* The call startDetection() made goes on to startDetectionProcess() if granted.
CameraPermissionResult(req, status) ==
  /\ permRequests' = permRequests (-) SetToBag({req})
  /\ cameraPermission' = IF status = "error" THEN cameraPermission ELSE status
  /\ hasPermission' = IF status = "error" THEN hasPermission ELSE (status = "granted")
  /\ UNCHANGED <<isModelLoaded, now, modelLoading, starts, dlast>>
  /\ IF req.start /\ status = "granted"
     THEN startDetectionProcess(req.opts, detTimers, frames)
     ELSE UNCHANGED <<isDetecting, detectionInterval, lastFrameTime, detTimers,
                      detTimerSeq, frames, frameSeq, cycles>>
  /\ UNCHANGED notDetection

\* loadModel() completes: the model is loaded and warmed up, or loading failed.
ModelLoaded(ok) ==
  /\ modelLoading
  /\ modelLoading' = FALSE
  /\ isModelLoaded' = ok
  /\ UNCHANGED <<isDetecting, detectionInterval, hasPermission, lastFrameTime, now,
                 detTimers, detTimerSeq, cameraPermission, permRequests, frames,
                 frameSeq, starts, cycles, dlast>>
  /\ UNCHANGED notDetection

\* Time passes; a timer that is due fires first.
Advance ==
  /\ now + ClockStep <= MaxTime
  /\ \A t \in detTimers : t.due > now
  /\ now' = now + ClockStep
  /\ UNCHANGED <<isDetecting, detectionInterval, hasPermission, lastFrameTime,
                 isModelLoaded, detTimers, detTimerSeq, cameraPermission, permRequests,
                 modelLoading, frames, frameSeq, starts, cycles, dlast>>
  /\ UNCHANGED notDetection

\* Detection timer t fires: detectFrame() runs up to its first await.
DetectTick(t) ==
  LET df == detectFrame(frames, frameSeq, cycles, now, lastFrameTime, t.opts)
  IN /\ t.due <= now
     /\ df.frameSeq <= MaxFrames
     /\ frames' = df.frames
     /\ frameSeq' = df.frameSeq
     /\ cycles' = df.cycles
     /\ detTimers' = (detTimers \ {t}) \cup {[t EXCEPT !.due = @ + t.opts.detectionInterval]}
     /\ UNCHANGED <<isDetecting, detectionInterval, hasPermission, lastFrameTime,
                    isModelLoaded, now, detTimerSeq, cameraPermission, permRequests,
                    modelLoading, starts, dlast>>
     /\ UNCHANGED notDetection

\* What a frame's end is recorded with.
FrameOp(f) ==
  [DetOp("frame") EXCEPT !.confidenceThreshold = f.opts.confidenceThreshold,
                         !.maxDetections = f.opts.maxDetections,
                         !.stopped = f.stopped,
                         !.timerKept = (detTimers' = detTimers)]

\* detectFrame() from the result of processImage to its end: haptic,
\* announcement and onDetection for a non-empty batch, then lastFrameTime.
\* failed is "inference" if processImage caught an error and returned [].
FinishFrame(f, predictions, detectedObjects, failed) ==
  LET some == Len(detectedObjects) > 0
  IN /\ (some /\ f.opts.announceObjects) => Len(enqueued) < MaxUtterances
     /\ frames' = frames \ {f}
     /\ lastFrameTime' = f.currentTime
     /\ IF some /\ f.opts.announceObjects
        THEN \E k \in Refusals(1) : SetSpeech(speak(SpeechState, "detected", k))
        ELSE UNCHANGED speechVars
     /\ dlast' = [FrameOp(f) EXCEPT !.failed = failed,
                                    !.predictions = predictions,
                                    !.batch = detectedObjects,
                                    !.haptic = (some /\ f.opts.hapticFeedback),
                                    !.said = (some /\ f.opts.announceObjects),
                                    !.onDetection = some]

\* takePicture() completes for frame f: with a picture, or with null, which
\* detectFrame turns into an error that its catch reports through onError.
\* With a picture processImage starts: it returns [] at once if the model is
\* not loaded, and else awaits the inference.
FrameCaptured(f, ok) ==
  /\ f.phase = "capture"
  /\ UNCHANGED <<isDetecting, detectionInterval, hasPermission, isModelLoaded, now,
                 detTimers, detTimerSeq, cameraPermission, permRequests, modelLoading,
                 frameSeq, starts, cycles>>
  /\ UNCHANGED <<navVars, locVars, pending, last, hookVars, trackVars, loaderVars,
                 navHookVars>>
  /\ IF ~ok
     THEN /\ frames' = frames \ {f}
          /\ dlast' = [FrameOp(f) EXCEPT !.failed = "capture", !.errs = 1]
          /\ UNCHANGED <<lastFrameTime, speechVars>>
     ELSE IF ~isModelLoaded
     THEN FinishFrame(f, <<>>, <<>>, "none")
     ELSE /\ frames' = (frames \ {f}) \cup {[f EXCEPT !.phase = "inference"]}
          /\ UNCHANGED <<lastFrameTime, dlast, speechVars>>

\* The inference of frame f completes: with the model's predictions, or with an
\* error, which processImage catches and turns into [].
FrameInferred(f, ok, predictions) ==
  /\ f.phase = "inference"
  /\ UNCHANGED <<isDetecting, detectionInterval, hasPermission, isModelLoaded, now,
                 detTimers, detTimerSeq, cameraPermission, permRequests, modelLoading,
                 frameSeq, starts, cycles>>
  /\ UNCHANGED <<navVars, locVars, pending, last, hookVars, trackVars, loaderVars,
                 navHookVars>>
  /\ IF ok
     THEN FinishFrame(f, predictions, processImage(predictions), "none")
     ELSE FinishFrame(f, <<>>, <<>>, "inference")

\* The system's answers a requestCameraPermission() call may get.
CameraAnswers ==
  IF cameraPermission = "undetermined" THEN {"granted", "denied", "error"}
  ELSE {cameraPermission}

DetectNext ==
  \/ \E o \in DetectionOptions : StartDetection(o)
  \/ StopDetection
  \/ \E req \in BagToSet(permRequests), status \in CameraAnswers :
       CameraPermissionResult(req, status)
  \/ \E ok \in BOOLEAN : ModelLoaded(ok)
  \/ Advance
  \/ \E t \in detTimers : DetectTick(t)
  \/ \E f \in frames, ok \in BOOLEAN : FrameCaptured(f, ok)
  \/ \E f \in frames, ps \in ModelOutputs \cup {<<>>} :
       FrameInferred(f, ps # <<>>, ps)
  \/ DeviceDone

\* ---------------------------------------------------------- useObjectDetection

HookInit ==
  /\ enabled = FALSE
  /\ hookIsDetecting = FALSE
  /\ hookHasPermission = "null"
  /\ isModelLoading = TRUE
  /\ effectIsDetecting = FALSE
  /\ polls = 0

\* getLoadingProgress()
getLoadingProgress == [progress |-> 0, status |-> "Loading model..."]

\* The options the hook passes on: its own defaults.
HookOptions ==
  [confidenceThreshold |-> 50, detectionInterval |-> 3000, maxDetections |-> 5,
   announceObjects |-> TRUE, hapticFeedback |-> TRUE]

\* Whether the hook's startDetection() goes on to the service.
HookMayStart(det, hp, ml) == ~(det \/ hp # "true" \/ ml)

\* The enable effect for a render with props and state (e, hp, ml, det), after
\* the cleanup of the effect before it, which saw isDetecting as was: what it
\* asks of the service and what it sets isDetecting to.
EnableEffect(e, hp, ml, det, was) ==
  LET starting == e /\ hp = "true" /\ ~ml /\ HookMayStart(det, hp, ml)
      stopping == ~(e /\ hp = "true" /\ ~ml) /\ ~e /\ det
  IN [calls |-> IF starting THEN (IF was THEN "restart" ELSE "start")
                ELSE IF stopping \/ was THEN "stop" ELSE "none",
      isDetecting |-> IF starting THEN TRUE ELSE IF stopping THEN FALSE ELSE det]

\* The calls of the service an effect run or a handler of the hook makes.
ServiceCalls(calls) ==
  IF calls = "start" THEN startDetection(HookOptions)
  ELSE IF calls = "restart" THEN restartDetection(HookOptions)
  ELSE IF calls = "stop" THEN stopDetection
  ELSE UNCHANGED detVars

notHook ==
  <<speechVars, navVars, locVars, pending, last, trackVars, loaderVars, navHookVars>>

\* A render whose enabled, hasPermission or isModelLoading differs from the
\* render before: the effect's cleanup runs, then the effect.
Rerender(e, hp, ml) ==
  LET eff == EnableEffect(e, hp, ml, hookIsDetecting, effectIsDetecting)
  IN /\ enabled' = e
     /\ hookHasPermission' = hp
     /\ isModelLoading' = ml
     /\ hookIsDetecting' = eff.isDetecting
     /\ effectIsDetecting' = hookIsDetecting
     /\ ServiceCalls(eff.calls)
     /\ (eff.calls \in {"start", "restart"}) => starts < MaxStarts

\* checkPermission() completes: the system's answer, or an error.
HookPermission(status) ==
  /\ hookHasPermission = "null"
  /\ Rerender(enabled, IF status = "granted" THEN "true" ELSE "false", isModelLoading)
  /\ UNCHANGED polls
  /\ UNCHANGED notHook

\* The loading-progress poll runs (every 100 ms).
HookPoll ==
  /\ polls < MaxPolls
  /\ polls' = polls + 1
  /\ IF getLoadingProgress.progress = 100 /\ isModelLoading
     THEN Rerender(enabled, hookHasPermission, FALSE)
     ELSE UNCHANGED <<enabled, hookIsDetecting, hookHasPermission, isModelLoading,
                      effectIsDetecting, detVars>>
  /\ UNCHANGED notHook

\* The screen renders the hook with another value of enabled.
HookSetEnabled(e) ==
  /\ e # enabled
  /\ Rerender(e, hookHasPermission, isModelLoading)
  /\ UNCHANGED polls
  /\ UNCHANGED notHook

\* toggleDetection(): the hook's stopDetection() or startDetection()
HookToggleDetection ==
  /\ IF hookIsDetecting
     THEN /\ stopDetection
          /\ hookIsDetecting' = FALSE
     ELSE IF HookMayStart(hookIsDetecting, hookHasPermission, isModelLoading)
     THEN /\ starts < MaxStarts
          /\ startDetection(HookOptions)
          /\ hookIsDetecting' = TRUE
     ELSE UNCHANGED <<detVars, hookIsDetecting>>
  /\ UNCHANGED <<enabled, hookHasPermission, isModelLoading, effectIsDetecting, polls>>
  /\ UNCHANGED notHook

\* The hook on a screen, with the service's own permission request and model
\* load going on.
HookNext ==
  \/ \E status \in CameraAnswers : HookPermission(status)
  \/ HookPoll
  \/ \E e \in BOOLEAN : HookSetEnabled(e)
  \/ HookToggleDetection
  \/ \E req \in BagToSet(permRequests), status \in CameraAnswers :
       CameraPermissionResult(req, status)
  \/ \E ok \in BOOLEAN : ModelLoaded(ok)

\* ------------------------------------------ LocationService: tracking calls

TrackInit == trackRequests = 0

\* startLocationTracking(): with the permission granted it starts watching at
\* once; otherwise it requests the permission and returns, and the start
\* waits for the answer.  last.located tells that startWatching() was called,
\* last.wasActive that a watch was stored then, last.n the stream it created.
startLocationTracking ==
  LET sw == startWatching(watchId, watches)
      rec == [Op("track") EXCEPT !.wasActive = (watchId # "null")]
  IN IF isPermissionGranted
     THEN /\ watchId' = sw.watchId
          /\ watches' = sw.watches
          /\ trackRequests' = trackRequests
          /\ last' = [rec EXCEPT !.located = TRUE, !.threw = sw.threw,
                                 !.ret = IF sw.threw THEN "threw" ELSE "started",
                                 !.n = IF sw.threw THEN 0 ELSE Cardinality(sw.watches)]
     ELSE /\ trackRequests < MaxTracking
          /\ trackRequests' = trackRequests + 1
          /\ last' = [rec EXCEPT !.ret = "awaiting"]
          /\ UNCHANGED <<watchId, watches>>

\* A caller (a screen, or NavigationService) calls startLocationTracking().
TrackLocation ==
  /\ startLocationTracking
  /\ UNCHANGED <<isPermissionGranted, lastKnownLocation, osPermission, navVars, pending,
                 speechVars, detVars, hookVars, loaderVars, navHookVars>>

\* The requestPermissions() of a waiting startLocationTracking() call answers:
\* granted, the call starts watching; otherwise it reports through onError.
TrackPermissionResult(ask) ==
  LET answer == PermissionAnswer(ask)
      sw == startWatching(watchId, watches)
      rec == [Op("track") EXCEPT !.wasActive = (watchId # "null")]
  IN /\ trackRequests > 0
     /\ trackRequests' = trackRequests - 1
     /\ osPermission' = answer
     /\ isPermissionGranted' = (answer = "granted")
     /\ IF answer = "granted"
        THEN /\ watchId' = sw.watchId
             /\ watches' = sw.watches
             /\ last' = [rec EXCEPT !.located = TRUE, !.threw = sw.threw,
                                    !.ret = IF sw.threw THEN "threw" ELSE "started",
                                    !.n = IF sw.threw THEN 0 ELSE Cardinality(sw.watches)]
        ELSE /\ UNCHANGED <<watchId, watches>>
             /\ last' = [rec EXCEPT !.ret = "refused", !.errs = 1]
     /\ UNCHANGED <<lastKnownLocation, navVars, pending, speechVars, detVars, hookVars,
                    loaderVars, navHookVars>>

\* A caller calls stopLocationTracking().
StopTracking ==
  LET sl == stopLocationTracking(watchId, watches)
  IN /\ watchId' = sl.watchId
     /\ watches' = sl.watches
     /\ last' = [Op("untrack") EXCEPT !.wasActive = (watchId # "null"),
                                      !.threw = sl.threw]
     /\ UNCHANGED <<isPermissionGranted, lastKnownLocation, osPermission, trackRequests,
                    navVars, pending, speechVars, detVars, hookVars, loaderVars,
                    navHookVars>>

\* A getCurrentLocation() call of a screen completes.
CurrentLocation(ask, fix) ==
  LET got == getCurrentLocation(ask, fix)
  IN /\ osPermission' = got.osPermission
     /\ isPermissionGranted' = got.isPermissionGranted
     /\ lastKnownLocation' = got.lastKnownLocation
     /\ last' = [Op("locate") EXCEPT !.located = (got.location # NoLocation)]
     /\ UNCHANGED <<watchId, watches, trackRequests, navVars, pending, speechVars,
                    detVars, hookVars, loaderVars, navHookVars>>

\* LocationService and its callers: the constructor's permission request,
\* position requests, tracking starts and stops, and the samples of the
\* position streams.
LocationNext ==
  \/ \E ask \in {"granted", "denied"}, fix \in Positions \cup {NoLocation} :
       /\ (isPermissionGranted \/ osPermission # "undetermined") => ask = "granted"
       /\ (osPermission = "denied" \/ (~isPermissionGranted /\ ask = "denied"))
            => fix = NoLocation
       /\ CurrentLocation(ask, fix)
  \/ \E ask \in {"granted", "denied"} :
       /\ osPermission # "undetermined" => ask = "granted"
       /\ RequestPermissions(ask)
  \/ TrackLocation
  \/ \E ask \in {"granted", "denied"} :
       /\ osPermission # "undetermined" => ask = "granted"
       /\ TrackPermissionResult(ask)
  \/ StopTracking
  \/ \E w \in watches, p \in Positions : LocationUpdate(w, p)

\* --------------------------------------------------------------- ModelLoader

LoaderInit ==
  /\ loaderModel = "null"
  /\ loaderIsModelLoaded = FALSE
  /\ loadingProgress = 0
  /\ loadingStatus = "Initializing..."
  /\ loads = {}
  /\ loadSeq = 0

\* The awaits of loadModel(), in order.
LoadStages == <<"setBackend", "ready", "loadGraphModel", "predict">>

\* loadModel() up to its first await: a loaded model is returned as it is,
\* otherwise the call resets status and progress and starts loading.
LoadModel ==
  /\ loadSeq < MaxLoads
  /\ loadSeq' = loadSeq + 1
  /\ IF loaderIsModelLoaded /\ loaderModel # "null"
     THEN UNCHANGED <<loadingStatus, loadingProgress, loads>>
     ELSE /\ loadingStatus' = "Initializing TensorFlow..."
          /\ loadingProgress' = 0
          /\ loads' = loads \cup {[id |-> loadSeq + 1, at |-> 1]}
  /\ UNCHANGED <<loaderModel, loaderIsModelLoaded, speechVars, navVars, locVars, pending,
                 last, detVars, hookVars, trackVars, navHookVars>>

\* The await that call c is suspended on completes (ok) or throws, and the
\* call runs to its next await, to its return or through its catch block.
LoadStep(c, ok) ==
  /\ IF ~ok
     THEN /\ loadingStatus' = "Error loading model"
          /\ loadingProgress' = 0
          /\ loads' = loads \ {c}
          /\ UNCHANGED <<loaderModel, loaderIsModelLoaded>>
     ELSE IF LoadStages[c.at] = "setBackend"
     THEN /\ loads' = (loads \ {c}) \cup {[c EXCEPT !.at = 2]}
          /\ UNCHANGED <<loaderModel, loaderIsModelLoaded, loadingProgress, loadingStatus>>
     ELSE IF LoadStages[c.at] = "ready"
     THEN /\ loadingProgress' = 20
          /\ loadingStatus' = "Loading model..."
          /\ loads' = (loads \ {c}) \cup {[c EXCEPT !.at = 3]}
          /\ UNCHANGED <<loaderModel, loaderIsModelLoaded>>
     ELSE IF LoadStages[c.at] = "loadGraphModel"
     THEN /\ loaderModel' = "graph"
          /\ loadingProgress' = 90
          /\ loadingStatus' = "Finalizing model setup..."
          /\ loads' = (loads \ {c}) \cup {[c EXCEPT !.at = 4]}
          /\ UNCHANGED loaderIsModelLoaded
     ELSE /\ loaderIsModelLoaded' = TRUE
          /\ loadingProgress' = 100
          /\ loadingStatus' = "Model loaded successfully"
          /\ loads' = loads \ {c}
          /\ UNCHANGED loaderModel
  /\ UNCHANGED <<loadSeq, speechVars, navVars, locVars, pending, last, detVars, hookVars,
                 trackVars, navHookVars>>

\* getLoadingProgress() of the ModelLoader
loaderProgress == [progress |-> loadingProgress, status |-> loadingStatus]

\* The callers of the loader and TensorFlow completing or failing its awaits.
LoaderNext ==
  \/ LoadModel
  \/ \E c \in loads, ok \in BOOLEAN : LoadStep(c, ok)

\* ------------------------------------------------------------- useNavigation

NavHookInit == navHookIsNavigating = FALSE

\* The destinations the screen passes to the hook, and the hook's default
\* for announceSteps.
NavHookDestinations == {"home", "nowhere"}
NavHookAnnounces == TRUE

\* The hook's startNavigation(destination), up to the service's await: a
\* service call that returns false or throws before the await leaves
\* isNavigating as it is.
NavHookStart(destination) ==
  /\ startNavigation(destination, NavHookAnnounces)
  /\ UNCHANGED navHookVars

\* The service call the hook awaits completes: on success the hook sets
\* isNavigating; on false, or when the call throws, it only sets its error.
NavHookResume(call, ask, fix, randomTurn, secondTurn) ==
  /\ resumeStartNavigation(call, ask, fix, randomTurn, secondTurn)
  /\ navHookIsNavigating' = IF last'.ret = "true" THEN TRUE ELSE navHookIsNavigating

\* The hook's stopNavigation(): the setters run only if the service call
\* returns.
NavHookStop ==
  /\ stopNavigation
  /\ navHookIsNavigating' = IF last'.threw THEN navHookIsNavigating ELSE FALSE

\* The hook's nextStep() and previousStep() call the service only while the
\* hook's isNavigating is true.
NavHookNextStep == navHookIsNavigating /\ MoveToNextStep

NavHookPreviousStep == navHookIsNavigating /\ MoveToPreviousStep

\* A screen that navigates through the hook, with the service's timer and
\* position stream.
NavHookNext ==
  \/ \E d \in NavHookDestinations : NavHookStart(d)
  \/ \E call \in BagToSet(pending), ask \in {"granted", "denied"},
        fix \in Positions \cup {NoLocation} :
       /\ (isPermissionGranted \/ osPermission # "undetermined") => ask = "granted"
       /\ (osPermission = "denied" \/ (~isPermissionGranted /\ ask = "denied"))
            => fix = NoLocation
       /\ NavHookResume(call, ask, fix, "right", "left")
  \/ NavHookStop
  \/ NavHookNextStep
  \/ NavHookPreviousStep
  \/ \E t \in intervals : Tick(t)
  \/ \E w \in watches, p \in Positions : LocationUpdate(w, p)

Init ==
  /\ SpeechInit /\ LocationInit /\ NavInit /\ DetectInit /\ HookInit
  /\ TrackInit /\ LoaderInit /\ NavHookInit

\* The same, with a text-to-speech device that refuses no call.
InitNav == Init /\ ttsFaults = 0

SpecSpeech == Init /\ [][SpeechNext]_vars

SpecSpeechFair == SpecSpeech /\ WF_vars(DeviceDone \/ DeviceError)

\* NavigationService with the LocationService, the timers and the speech queue.
SpecNav == InitNav /\ [][NavNext]_vars

\* A silent session to "home" with the manual step moves: the caller starts and
\* stops, the timer ticks, the position stream delivers, the user steps back
\* and forth.
StepsNext ==
  \/ StartNavigation("home", FALSE)
  \/ \E call \in BagToSet(pending), fix \in Positions \cup {NoLocation},
        rt \in {"right", "left"} :
       /\ fix = NoLocation => rt = "right"
       /\ FixArrives(call, "granted", fix, rt, rt)
  \/ StopNavigation
  \/ \E t \in intervals : Tick(t)
  \/ MoveToNextStep
  \/ MoveToPreviousStep
  \/ \E w \in watches, p \in Positions : LocationUpdate(w, p)

SpecSteps == InitNav /\ [][StepsNext]_vars

\* ObjectDetectionService with the camera, the model, its timers, the clock and
\* the speech queue.
SpecDetect == InitNav /\ [][DetectNext]_vars

\* The services once the constructor's camera permission request and model
\* load have succeeded.
InitAnnounce ==
  /\ SpeechInit /\ ttsFaults = 0
  /\ LocationInit
  /\ NavInit
  /\ HookInit
  /\ TrackInit /\ LoaderInit /\ NavHookInit
  /\ isDetecting = FALSE
  /\ detectionInterval = NoTimer
  /\ hasPermission = TRUE
  /\ lastFrameTime = 0
  /\ isModelLoaded = TRUE
  /\ now = 0
  /\ detTimers = {}
  /\ detTimerSeq = 0
  /\ cameraPermission = "granted"
  /\ permRequests = EmptyBag
  /\ modelLoading = FALSE
  /\ frames = {}
  /\ frameSeq = 0
  /\ starts = 0
  /\ cycles = <<>>
  /\ dlast = DetOp("none")

\* The two producers of announcements, the navigation timer and the detection
\* timer, with the speech queue and the text-to-speech device: one navigation
\* session and one detection session, which nobody stops.
AnnounceNext ==
  \/ /\ ~isNavigating
     /\ pending = EmptyBag
     /\ StartNavigation("home", TRUE)
  \/ \E call \in BagToSet(pending), fix \in Positions :
       FixArrives(call, "granted", fix, "right", "left")
  \/ \E t \in intervals : Tick(t)
  \/ \E o \in DetectionOptions :
       /\ o.detectionInterval = ClockStep
       /\ ~isDetecting
       /\ StartDetection(o)
  \/ Advance
  \/ \E t \in detTimers : DetectTick(t)
  \/ \E f \in frames : FrameCaptured(f, TRUE)
  \/ \E f \in frames, ps \in ModelOutputs :
       /\ Len(processImage(ps)) = 1
       /\ FrameInferred(f, TRUE, ps)
  \/ DeviceDone
  \/ DeviceError

SpecAnnounce == InitAnnounce /\ [][AnnounceNext]_vars

\* useObjectDetection over the service. The poll is an interval timer, the
\* permission requests and the model load are promises of the platform: each
\* of them gets its turn. The screen and the user need not act.
SpecHook ==
  /\ InitNav
  /\ [][HookNext]_vars
  /\ WF_vars(HookPoll)
  /\ WF_vars(\E status \in CameraAnswers : HookPermission(status))
  /\ WF_vars(\E req \in BagToSet(permRequests), status \in CameraAnswers :
               CameraPermissionResult(req, status))
  /\ WF_vars(\E ok \in BOOLEAN : ModelLoaded(ok))

\* ------------------------------------------------------ SpeechService claims

SeqRange(q) == {q[i] : i \in 1..Len(q)}

\* C1: in every reachable state at most one utterance has been handed to the
\* text-to-speech device and is neither completed nor stopped.
C1_AtMostOneOutstanding == Len(ttsPending) <= 1

\* An utterance is at the device while another waits, after a stop() earlier on.
C1_Witness == Len(ttsPending) = 1 /\ Len(queue) >= 1 /\ stops > 0 /\ Len(devLog) > 0

\* Without a stop(): Speech.speak is called for the utterances in insertion
\* order, the caller callbacks fire one per utterance in insertion order, and
\* an utterance waits in the queue only while the device holds another.
C2_Order ==
  /\ \A i \in 1..Len(handed) : handed[i].id = i
  /\ \A i \in 1..Len(cbLog) : cbLog[i].id = i
  /\ Len(cbLog) <= Len(enqueued)
  /\ Len(queue) > 0 => Len(ttsPending) > 0
  /\ (Len(queue) = 0 /\ Len(ttsPending) = 0) => Len(cbLog) = Len(enqueued)

\* C2: N utterances enqueued from an idle queue with stop() never called give
\* exactly N caller callbacks, in insertion order, and are handed to the device
\* in that order; every callback does fire once the device completes its work.
C2_FifoCompletion ==
  /\ [](stops = 0 => C2_Order)
  /\ <>[](stops > 0 \/ Len(cbLog) = Len(enqueued))

\* Three or more utterances all completed, some by onDone and some by onError.
C2_Witness ==
  /\ stops = 0
  /\ Len(enqueued) >= 3
  /\ Len(cbLog) = Len(enqueued)
  /\ \E i, j \in 1..Len(cbLog) : cbLog[i].cb = "onDone" /\ cbLog[j].cb = "onError"

\* C3: after stop() the processing state is reset, so an utterance never waits
\* in the queue while the device holds none (no completion callback of the
\* stopped utterance is needed to get it spoken).
C3_StopResetsProcessing == Len(queue) > 0 => Len(ttsPending) > 0

\* C4: stop() empties the pending queue, and no utterance enqueued before a
\* stop() is handed to the device after that stop().
C4_StopClearsBacklog ==
  /\ \A i \in 1..Len(queue) : queue[i] > stopMark
  /\ \A i \in 1..Len(handed) : handed[i].id > handed[i].mark

\* A stop() dropped a waiting utterance for good, and speech went on after it.
C4_Witness ==
  /\ stops > 0
  /\ \E id \in 1..stopMark : \A i \in 1..Len(handed) : handed[i].id # id
  /\ \E i \in 1..Len(handed) : handed[i].mark > 0 /\ handed[i].ok

\* The failures reported in this step: Speech.speak calls that threw, and
\* error events of the device.
NewThrown == {handed'[i].id : i \in {j \in (Len(handed) + 1)..Len(handed') : ~handed'[j].ok}}
NewErrorEvents ==
  {devLog'[i].id : i \in {j \in (Len(devLog) + 1)..Len(devLog') : devLog'[j].outcome = "error"}}

\* C5: a failure the device reports for an utterance (an error event, or
\* Speech.speak throwing) invokes the caller's onError for it once, the
\* utterance is never handed to the device again, and the queue advances: the
\* utterances taken in that step are the head of the queue, in order, until
\* one is accepted or the queue is empty.
C5_ErrorAdvancesQueue ==
  /\ [][\A u \in NewThrown \cup NewErrorEvents :
          /\ Cardinality({i \in (Len(cbLog) + 1)..Len(cbLog') :
                            cbLog'[i] = [id |-> u, cb |-> "onError"]}) = 1
          /\ u \notin SeqRange(queue') \cup SeqRange(ttsPending')
          /\ u \in NewErrorEvents =>
                /\ Len(queue) > 0 => Len(handed') > Len(handed)
                /\ \A i \in 1..(Len(handed') - Len(handed)) :
                      handed'[Len(handed) + i].id = queue[i]
                /\ Len(ttsPending') = 0 => Len(queue') = 0]_vars
  /\ [](\A i, j \in 1..Len(handed) : handed[i].id = handed[j].id => i = j)

\* An error event arrived for an utterance while another was waiting, and the
\* waiting one was then accepted by the device.
C5_Witness ==
  \E i \in 1..Len(devLog) :
    /\ devLog[i].outcome = "error"
    /\ \E j \in 1..Len(handed) : handed[j].id = devLog[i].id + 1 /\ handed[j].ok
    /\ \E j \in 1..Len(cbLog) : cbLog[j] = [id |-> devLog[i].id, cb |-> "onError"]
    /\ stops = 0

\* ------------------------------------------------- NavigationService claims

\* C6: arrival puts the service in Idle exactly once with exactly one arrival
\* announcement, its timer cleared and its location subscription removed, so
\* that no later position sample reaches the service.
C6_ArrivalTearsDown ==
  last.op = "arrival" =>
    /\ ~isNavigating
    /\ last.n = 1
    /\ last.said <= 1
    /\ updateInterval = NoTimer
    /\ intervals = {}
    /\ watches = {}

NoCatalogMatch(s) ==
  \A i \in DOMAIN commonDestinations :
    commonDestinations[i].id # s /\ commonDestinations[i].name # s

StartFailedCleanly ==
  /\ last.ret = "false"
  /\ last.errs = 1
  /\ ~last.threw
  /\ ~last.changed

\* C7: a startNavigation() call made while Idle whose destination string
\* matches no catalog id or name, or for which no position is obtained,
\* returns false, calls onError once, throws nothing and leaves isNavigating,
\* the timers and the position streams as they were.
C7_FailedStartStaysIdle ==
  (last.op = "start" /\ ~last.wasActive) =>
    /\ NoCatalogMatch(last.input) => StartFailedCleanly
    /\ (last.ret # "awaiting" /\ ~last.located) => StartFailedCleanly

\* A call made while Idle has just ended for want of a position, and the
\* service is Idle with no timer.
C7_Witness ==
  /\ last.op = "start"
  /\ ~last.wasActive
  /\ last.input = "home"
  /\ ~last.located
  /\ last.ret = "false"
  /\ ~isNavigating
  /\ intervals = {}

\* C8: stopNavigation() from Active leaves isNavigating false, the timer
\* cleared, the position watch removed and destination, steps and index
\* reset; from Idle it changes nothing.
C8_StopTearsDown ==
  last.op = "stop" =>
    IF last.wasActive
    THEN /\ ~isNavigating
         /\ updateInterval = NoTimer
         /\ intervals = {}
         /\ watchId = "null"
         /\ watches = {}
         /\ currentDestination = NullDest
         /\ navigationSteps = <<>>
         /\ currentStepIndex = 0
    ELSE ~last.changed

\* C9: whenever the service is Idle, the session state is destroyed:
\* currentDestination is null and the step list is empty.
C9_IdleHasNoSession ==
  ~isNavigating => (currentDestination = NullDest /\ navigationSteps = <<>>)

\* C10: a startNavigation() call that saw a stopNavigation() while it awaited
\* its position fix is discarded when the fix arrives: it changes no state and
\* announces nothing.
C10_StoppedStartDiscarded ==
  (last.op = "start" /\ last.stopped /\ last.ret # "awaiting") =>
    (~last.changed /\ last.said = 0 /\ last.ret # "true")

\* C11: moveToNextStep() / moveToPreviousStep() return true only when Active
\* and the index they found can move within [0, length-1], and then change
\* currentStepIndex by exactly +1 / -1; at the last step (next), at the first
\* step (previous) or when Idle they return false and leave the index as it was.
C11_MoveByOneWithinRange ==
  /\ last.op = "next" =>
        IF last.wasActive /\ last.n + 1 <= Len(navigationSteps) - 1
        THEN last.ret = "true" /\ currentStepIndex = last.n + 1
        ELSE last.ret = "false" /\ currentStepIndex = last.n
  /\ last.op = "previous" =>
        IF last.wasActive /\ last.n - 1 >= 0
        THEN last.ret = "true" /\ currentStepIndex = last.n - 1
        ELSE last.ret = "false" /\ currentStepIndex = last.n

\* A previous-step call has just moved back from a step that a next-step call
\* or a tick had reached.
C11_Witness ==
  /\ last.op = "previous"
  /\ last.ret = "true"
  /\ last.n >= 2
  /\ currentStepIndex = last.n - 1

\* C12: in every Active state, after any sequence of starts, stops, timer
\* ticks, moveToNextStep and moveToPreviousStep calls,
\* 0 <= currentStepIndex < navigationSteps.length.
C12_IndexInRange ==
  isNavigating => (0 <= currentStepIndex /\ currentStepIndex < Len(navigationSteps))

\* A next-step call was refused at the last step of an Active session.
C12_Witness ==
  /\ isNavigating
  /\ last.op = "next"
  /\ last.ret = "false"
  /\ currentStepIndex = Len(navigationSteps) - 1

\* ------------------------------------------- ObjectDetectionService claims

AtLeastThreshold(p) == p.score >= dlast.confidenceThreshold

\* C13: the batch a frame emits consists exactly of the model's predictions
\* whose confidence is >= the confidenceThreshold passed to startDetection.
C13_BatchIsThresholdFilter ==
  (dlast.op = "frame" /\ dlast.failed = "none") =>
    dlast.batch = SelectSeq(dlast.predictions, AtLeastThreshold)

\* C14: every batch passed to onDetection or announced holds at most
\* maxDetections objects, the value passed to startDetection.
C14_BatchWithinMaxDetections ==
  (dlast.op = "frame" /\ (dlast.onDetection \/ dlast.said)) =>
    Len(dlast.batch) <= dlast.maxDetections

\* C15: the start times of any two capture+inference cycles that are performed
\* are at least frameInterval apart.
C15_CyclesFrameIntervalApart ==
  \A i, j \in 1..Len(cycles) : i < j => cycles[j] - cycles[i] >= frameInterval

\* C16: the result of a frame that was in flight when stopDetection() was
\* called is discarded: its end triggers no haptic, enqueues no announcement
\* and does not call onDetection.
C16_StoppedFrameDiscarded ==
  (dlast.op = "frame" /\ dlast.stopped) =>
    (~dlast.haptic /\ ~dlast.said /\ ~dlast.onDetection)

\* C18: the service is Detecting (isDetecting with a running timer) only if
\* the camera permission is granted and the model has finished loading.
C18_DetectingOnlyWhenReady ==
  (isDetecting /\ \E t \in detTimers : t.id = detectionInterval) =>
    (hasPermission /\ isModelLoaded)

\* C19: a frame that failed, in capture or in inference, is reported through
\* onError and leaves the detection timers as they are.
C19_FailedFrameReportedTimerKept ==
  (dlast.op = "frame" /\ dlast.failed # "none") =>
    (dlast.errs = 1 /\ dlast.timerKept)

\* ----------------------------------------------------- useObjectDetection claim

C17_Ready == enabled /\ hookHasPermission = "true" /\ hasPermission /\ isModelLoaded

C17_Detecting == isDetecting /\ \E t \in detTimers : t.id = detectionInterval

\* C17: with detection enabled through the hook, once the camera permission is
\* granted and the model has finished loading (and they stay so), detection
\* eventually enters Detecting: startDetection has been invoked and the
\* detection timer runs.
C17_DeferredStartHappens == <>[]C17_Ready => <>C17_Detecting

\* ------------------------------------------------- cross-producer speech claim

NavigationTexts == {"start", "step", "arrival"}

\* C20: the announcements of the navigation timer and of the detection timer
\* go through the one queue and are handed to the device in the order of their
\* speak() calls; the device holds one utterance at a time, and the next one,
\* of whichever producer, is handed over only after the device has reported the
\* end of the one in progress.
C20_ProducersSerialized ==
  /\ \A i, j \in 1..Len(handed) : i < j => handed[i].id < handed[j].id
  /\ \A i \in 1..Len(queue) : \A j \in 1..Len(handed) : handed[j].id < queue[i]
  /\ \A i, j \in 1..Len(queue) : i < j => queue[i] < queue[j]
  /\ Len(ttsPending) <= 1
  /\ Len(handed) <= Len(devLog) + 1
  /\ \A i \in 1..Len(devLog) : devLog[i].id = handed[i].id
  /\ Len(handed) = Len(devLog) + 1 => ttsPending = <<handed[Len(handed)].id>>

\* A detection announcement is in progress at the device, and a navigation
\* announcement and another detection announcement wait behind it, in the
\* order of their speak() calls.
C20_Witness ==
  /\ Len(ttsPending) = 1
  /\ enqueued[ttsPending[1]] = "detected"
  /\ Len(queue) >= 2
  /\ enqueued[queue[1]] \in NavigationTexts
  /\ enqueued[queue[2]] = "detected"


\* LocationService with its callers and the geolocation device.
SpecLocation == InitNav /\ [][LocationNext]_vars

\* C21: every start of location tracking that gets to start watching has
\* removed the watch that was active before it and made its own stream the
\* one active stream, and at no time is more than one position stream active.
C21_StartReplacesWatch ==
  /\ Cardinality(watches) <= 1
  /\ (last.op = "track" /\ last.located) =>
       (~last.threw /\ watchId # "null" /\ watches = {last.n})

\* The ModelLoader with its callers.
SpecLoader == InitNav /\ [][LoaderNext]_vars

\* C22: while a load is going on, the progress getLoadingProgress() returns
\* never decreases, except in the step in which a call ends in failure.
C22_ProgressNeverDecreases ==
  [][(loads # {} /\ ~(\E c \in loads : LoadStep(c, FALSE)))
       => loaderProgress'.progress >= loaderProgress.progress]_vars


\* One session to "home" at a time, announced or silent, with the timer, the
\* position stream and the manual step moves.
TicksNext ==
  \/ \E a \in BOOLEAN :
       /\ ~isNavigating
       /\ pending = EmptyBag
       /\ StartNavigation("home", a)
  \/ \E call \in BagToSet(pending), fix \in Positions, rt \in {"right", "left"} :
       FixArrives(call, "granted", fix, rt, rt)
  \/ \E t \in intervals : Tick(t)
  \/ MoveToNextStep
  \/ MoveToPreviousStep
  \/ \E w \in watches, p \in Positions : LocationUpdate(w, p)

SpecTicks == InitNav /\ [][TicksNext]_vars

\* The session is Active and farther from the destination than the threshold.
ActiveAndFar ==
  /\ isNavigating
  /\ lastLocation # NoLocation
  /\ currentDestination # NullDest
  /\ Abs(Coordinates(currentDestination) - lastLocation) > distanceThreshold

\* The current step is not completed and is not the last one.
StepIsOpen ==
  /\ ~navigationSteps[currentStepIndex + 1].isCompleted
  /\ currentStepIndex + 1 < Len(navigationSteps)

\* C23: a tick of the navigation timer while Active and farther than the
\* threshold: if the current step is not completed and not the last one, it
\* is marked completed, the index advances by exactly one, the new step's
\* instruction is enqueued for speech (when the session announces) and
\* onStepChange is called; otherwise step state stays as it is.  Whether it
\* advances depends on the step state only, not on the position.
C23_TickAdvancesOpenStep ==
  [][\A t \in intervals :
       (ActiveAndFar /\ Tick(t)) =>
         IF StepIsOpen
         THEN /\ currentStepIndex' = currentStepIndex + 1
              /\ navigationSteps'[currentStepIndex + 1].isCompleted
              /\ \A i \in DOMAIN navigationSteps :
                   i # currentStepIndex + 1 => navigationSteps'[i] = navigationSteps[i]
              /\ t.announceSteps => enqueued' = Append(enqueued, "step")
              /\ ~t.announceSteps => enqueued' = enqueued
              /\ last'.op = "step" /\ last'.onStepChange
         ELSE UNCHANGED <<navigationSteps, currentStepIndex, enqueued>>]_vars

\* A tick has advanced an announced session from an open step.
C23_Witness ==
  /\ ActiveAndFar
  /\ last.op = "step" /\ last.said = 1 /\ last.onStepChange
  /\ currentStepIndex = last.n + 1
  /\ navigationSteps[last.n + 1].isCompleted

\* C28: a tick never advances from a step whose isCompleted is already true,
\* so the index stays where moveToPreviousStep() put it; isCompleted flags
\* are set only by ticks and are never reset within a session.
C28_TickNeverAdvancesCompletedStep ==
  [][/\ \A t \in intervals :
          (/\ isNavigating
           /\ navigationSteps[currentStepIndex + 1].isCompleted
           /\ Tick(t)) => UNCHANGED <<currentStepIndex, navigationSteps>>
     /\ (Len(navigationSteps') = Len(navigationSteps) /\ last'.op # "start") =>
          /\ \A i \in DOMAIN navigationSteps :
               navigationSteps[i].isCompleted => navigationSteps'[i].isCompleted
          /\ navigationSteps' # navigationSteps => \E t \in intervals : Tick(t)]_vars

\* moveToPreviousStep() has landed on a completed step of a session that is
\* far from its destination and whose timer is live.
C28_Witness ==
  /\ ActiveAndFar
  /\ intervals # {}
  /\ last.op = "previous" /\ last.ret = "true"
  /\ navigationSteps[currentStepIndex + 1].isCompleted


\* The positions a route is generated from, in meters on the meridian.
RoutePositions == {0, 1, 2, 149, 150, 152, 300, 1000}

\* Routes: silent sessions, one at a time, from any of RoutePositions to any
\* destination of the catalog, with both random turns drawn freely.
RouteNext ==
  \/ \E i \in DOMAIN commonDestinations :
       /\ ~isNavigating
       /\ pending = EmptyBag
       /\ StartNavigation(commonDestinations[i].id, FALSE)
  \/ \E call \in BagToSet(pending), fix \in RoutePositions, rt, st \in {"right", "left"} :
       FixArrives(call, "granted", fix, rt, st)
  \/ StopNavigation

SpecRoute == InitNav /\ [][RouteNext]_vars

\* r is Math.round(x / 3): the integer with r <= x/3 + 1/2 < r + 1
IsRoundOfThird(r, x) == 6 * r <= 2 * x + 3 /\ 2 * x + 3 < 6 * r + 6

\* The distance from the start of the session to its destination.
RouteLength == Abs(Coordinates(currentDestination) - lastLocation)

\* C24: generateNavigationSteps returns exactly 6 steps, none completed;
\* steps 1, 3 and 6 have distance round(totalDistance / 3), steps 2, 4 and 5
\* distance 0, and the last step's direction is that of the first turn.
C24_SixStepsInThirds ==
  (last.op = "start" /\ last.located) =>
    /\ Len(navigationSteps) = 6
    /\ \A i \in 1..6 : ~navigationSteps[i].isCompleted
    /\ \A i \in {1, 3, 6} : IsRoundOfThird(navigationSteps[i].distance, RouteLength)
    /\ \A i \in {2, 4, 5} : navigationSteps[i].distance = 0
    /\ navigationSteps[6].direction = navigationSteps[2].direction
    /\ navigationSteps[2].direction \in {"Left", "Right"}

\* A route of 300 m (grocery store to park) has been generated, in thirds of
\* 100 m, with different first and second turns.
C24_Witness ==
  /\ last.op = "start" /\ last.located
  /\ RouteLength = 300
  /\ navigationSteps[1].distance = 100
  /\ navigationSteps[5].direction # navigationSteps[2].direction


\* C25: a detection session that starts (permission granted) performs a
\* capture+inference cycle at once: every detection timer has a cycle begun
\* at the instant the timer was created.
C25_CycleAtStart ==
  \A t \in detTimers : \E i \in DOMAIN cycles : cycles[i] = t.created


\* C27: at most one detection timer is live, and only while isDetecting is
\* true, whatever startDetection and stopDetection calls were made while the
\* camera permission request was pending.
C27_OneDetectionTimerWhileDetecting ==
  /\ Cardinality(detTimers) <= 1
  /\ detTimers # {} => isDetecting


SpecNavHook == InitNav /\ [][NavHookNext]_vars

\* C29: once no startNavigation() of the hook is awaiting its result, the
\* hook's isNavigating equals navigationService.isNavigationActive().
C29_HookMirrorsService ==
  pending = EmptyBag => navHookIsNavigating = isNavigating

=============================================================================
